---- MODULE Spec2Model ----
(***************************************************************************)
(* poem-proxy: the `proxy` handler of src/src/lib.rs.                      *)
(*                                                                         *)
(* Every inbound request r is handled by one invocation of `proxy`.  An    *)
(* upgrade request is answered with 101 and a task is spawned that splits  *)
(* the client socket, connects to the upstream and spawns the two pumps.   *)
(* Any other request is forwarded with reqwest (GET, POST) or refused.     *)
(* Every `.await` of the source is one step of the model.  A panic         *)
(* (`unwrap()` on an Err) unwinds the task it happens in: the task stops   *)
(* and the values it owns are dropped.                                     *)
(***************************************************************************)
EXTENDS Integers, Sequences, FiniteSets, TLC

\* The inbound requests (connections) the host framework can dispatch.
Reqs == {1, 2}

\* Number of frames each peer of a WebSocket session may send when one
\* request is followed in depth.
MaxFrames == 2

\* Frames each peer may send when two requests run concurrently: the first
\* session relays a frame in each direction, the second one is silent.
PairQuota == [r \in Reqs |-> IF r = 1 THEN 1 ELSE 0]

Methods == {"GET", "POST", "PUT"}

Payloads == {"A", "B"}

\* The two sockets of a session, and the two pumps.
Sides == {"client", "upstream"}

Pumps == {"c2u", "u2c"}

\* Status codes an upstream answers with, and the status an upstream error
\* may carry: reqwest::Error::status() is an Option, None is written 0.
UpstreamStatuses == {200, 404}

ErrorStatuses == {0, 504}

VARIABLES
    quota,    \* quota[r]: frames each peer of session r may send in this run
    req,      \* req[r]: the inbound request (method, upgrade headers)
    hpc,      \* hpc[r]: position of the handler invocation
    result,   \* result[r]: what the handler returned
    calls,    \* calls[r]: upstream HTTP calls issued (client.get/post ... send())
    upres,    \* upres[r]: what .send().await came back with (Ok or Err)
    task,     \* task[r]: position of the on_upgrade task
    halves,   \* halves[r]: the four socket halves of the session
    live,     \* live[c]: the RwLock<bool> cell created by session c
    ppc,      \* ppc[r][p]: position of pump p
    held,     \* held[r][p]: the msg pump p is forwarding
    inq,      \* inq[r][s]: frames the peer on s has sent, not yet read
    recvd,    \* recvd[r][s]: frames the stream of s has yielded
    sent,     \* sent[r][s]: frames accepted by the sink of s
    stream,   \* stream[r][s]: open; ended or error (the peer's doing, not yet
              \* read); closed (the end has been read: next() returned None)
    target,   \* the Data<&String> the handler is given
    config,   \* the ProxyConfig
    published,\* the config is built and the endpoint serves requests
    last,     \* last[f]: the last setter called for flag f of the config
    scope,    \* what this run varies: "deep" (one request and all that its
              \* peers can do), "pair" (two requests), "flag" (one request, the
              \* steps on the flag and its lock), "config" (the config,
              \* the target and the paths asked for)
    inuri,    \* inuri[r]: req.uri() of the inbound request
    uri,      \* uri[r]: the upstream URI (perm_target or request_uri)
    upx,      \* upx[r]: version, headers and body of the upstream response
    resp,     \* resp[r]: version, headers and body of the Response returned
    bodyReads,\* bodyReads[r]: reads of the inbound body (body.into_bytes())
    lock,     \* lock[c]: the read and write guards of the RwLock of cell c
    rd,       \* rd[r][p]: the cells pump p has read
    wr,       \* wr[r][p]: the cells pump p has written
    late      \* late[r][p]: frames p forwarded while its flag was false

vars == <<quota, req, hpc, result, calls, upres, task, halves, live, ppc, held,
          inq, recvd, sent, stream, target, config, published, last, scope,
          inuri, uri, upx, resp, bodyReads, lock, rd, wr, late>>

cfgVars == <<target, config, published, last, scope>>

NoReq == [method |-> "none", upgradeHdrs |-> FALSE]

NoResult == [tag |-> "none", status |-> 0]

NoMsg == [lib |-> "none", data |-> "none"]

\* Headers are a list of <<name, value>> in the order the map iterates.
NoParts == [version |-> "none", headers |-> <<>>, body |-> ""]

NoGuards == [readers |-> {}, writer |-> {}]

NoHalves == [clientsink |-> "none", clientstream |-> "none",
             serversink |-> "none", serverstream |-> "none"]

-----------------------------------------------------------------------------
(* Pure parts of the handler *)

\* Mutant: the extractor never recognises a handshake.
from_request_never_upgrades(rq) ==
    "Err"

\* WebSocket::from_request_without_body: Ok only for a GET request that
\* carries the upgrade handshake headers.
from_request_without_body(rq) ==
    IF rq.method = "GET" /\ rq.upgradeHdrs THEN "Ok" ELSE "Err"

\* Mutant: the catch-all arm forwards the request like GET and POST.
MethodArmForwardsAll(m) ==
    "forward"

\* match method { GET => .., POST => .., _ => return Err(405) }
MethodArm(m) ==
    IF m \in {"GET", "POST"} THEN "forward" ELSE "reject"

\* Result::unwrap
Unwrap(res) ==
    IF res = "Ok" THEN "value" ELSE "panic"

\* Mutant: the status carried by the error is dropped.
ErrorStatusAlwaysBadGateway(e) ==
    502

\* error.status().unwrap_or( StatusCode::BAD_GATEWAY )
ErrorStatus(e) ==
    IF e # 0 THEN e ELSE 502

\* The upstream responses: a header sent once, the same header sent twice,
\* two different headers, or none.
UpstreamHeaderLists ==
    { <<>>,
      << <<"x-test", "1">> >>,
      << <<"x-test", "1">>, <<"x-test", "2">> >>,
      << <<"x-test", "1">>, <<"server", "up">> >> }

UpstreamParts ==
    [version : {"HTTP/1.1", "HTTP/2.0"}, headers : UpstreamHeaderLists,
     body : {"", "ok"}]

\* The frame payloads the peers send in a run of scope sc.
PayloadsIn(sc) ==
    IF sc = "flag" THEN {"A"} ELSE Payloads

\* The responses the upstream answers with in a run of scope sc.
UpstreamPartsIn(sc) ==
    IF sc = "deep" THEN UpstreamParts
    ELSE {[version |-> "HTTP/1.1", headers |-> << <<"x-test", "1">> >>, body |-> "ok"]}

\* Mutant: an existing header is kept (entry().or_insert instead of insert).
HeaderInsertKeepsFirst(h, k, v) ==
    [x \in DOMAIN h \cup {k} |-> IF x \in DOMAIN h THEN h[x] ELSE v]

\* res.headers_mut().insert( key, val.to_owned() ): the map is keyed, a
\* later value replaces an earlier one under the same key.
HeaderInsert(h, k, v) ==
    [x \in DOMAIN h \cup {k} |-> IF x = k THEN v ELSE h[x]]

\* result.headers().iter().for_each( insert ), starting from the headers of
\* Response::default(), which are empty.
RECURSIVE CopyHeaders(_, _)
CopyHeaders(h, hs) ==
    IF hs = <<>> THEN h
    ELSE CopyHeaders(HeaderInsert(h, Head(hs)[1], Head(hs)[2]), Tail(hs))

\* The Response built in the Ok arm, but for its status.
CopyParts(up) ==
    [version |-> up.version, headers |-> CopyHeaders(<<>>, up.headers),
     body |-> up.body]

\* msg.into(): poem Message <-> tungstenite Message, variant by variant.
Into(m) ==
    [lib |-> IF m.lib = "poem" THEN "tungstenite" ELSE "poem", data |-> m.data]

\* The message type a stream yields: the client socket is poem's
\* WebSocketStream, the upstream socket is tokio-tungstenite's.
LibOf(s) ==
    IF s = "client" THEN "poem" ELSE "tungstenite"

\* Which stream a pump reads and which sink it writes.
Src(p) ==
    IF p = "c2u" THEN "client" ELSE "upstream"

Dst(p) ==
    IF p = "c2u" THEN "upstream" ELSE "client"

Peer(p) ==
    IF p = "c2u" THEN "u2c" ELSE "c2u"

\* The halves a pump's async block moves in and owns.
StreamHalf(p) ==
    IF p = "c2u" THEN "clientstream" ELSE "serverstream"

SinkHalf(p) ==
    IF p = "c2u" THEN "serversink" ELSE "clientsink"

\* The RwLock<bool> cells: the one each session creates, and a second one per
\* session that the handler never creates.
OtherCell(r) ==
    r + 2

Cells == Reqs \cup {OtherCell(r) : r \in Reqs}

\* Mutant: one flag shared by every session (a static instead of a fresh Arc).
client_live_static(r) ==
    1

\* let client_live = Arc::new( RwLock::new( true ) ): one cell per session.
client_live(r) ==
    r

\* Mutant: the second pump gets a flag of its own.
server_live_own(r) ==
    OtherCell(r)

\* let server_live = client_live.clone(): the same cell.
server_live(r) ==
    client_live(r)

FlagOf(r, p) ==
    IF p = "c2u" THEN client_live(r) ELSE server_live(r)

\* stream.next().await: Pending while the socket is open and silent, the
\* frames sent before an end or error are yielded first.
StreamNext(q, st) ==
    IF q # <<>> THEN [tag |-> "SomeOk", msg |-> Head(q)]
    ELSE IF st = "open" THEN [tag |-> "Pending", msg |-> NoMsg]
    ELSE IF st \in {"ended", "closed"} THEN [tag |-> "None", msg |-> NoMsg]
    ELSE [tag |-> "SomeErr", msg |-> NoMsg]

\* What sink.send( .. ).await can come back with: a send can fail at any
\* time, and it always fails on a socket whose stream half has read the end
\* of the connection (the two halves share one connection state).
SendResults(st) ==
    IF st = "closed" THEN {"Err"} ELSE {"Ok", "Err"}

\* while let Some( Ok( msg ) ) = ...
WhileLet(nxt) ==
    IF nxt.tag = "SomeOk" THEN "body" ELSE "exit"

\* Mutant: a failed send returns from the task instead of breaking the loop.
OnSendResultReturns(res) ==
    IF res = "Err" THEN "done" ELSE "check"

\* Mutant: a failed send is ignored and the loop goes on.
OnSendResultIgnoresErr(res) ==
    "check"

\* match sink.send( msg.into() ).await { Err( _ ) => break, _ => {} }
OnSendResult(res) ==
    IF res = "Err" THEN "exit" ELSE "check"

\* The sink takes the frames in the order of the send calls.
SinkSend(out, m) ==
    Append(out, m)

\* Mutant: the flag is read and not acted upon.
OnFlagIgnored(flag) ==
    "recv"

\* if !*live.read().await { break }
OnFlag(flag) ==
    IF ~flag THEN "exit" ELSE "recv"

\* RwLock: a read guard is granted while no write guard is out, a write
\* guard while no guard at all is out.
CanRead(l) ==
    l.writer = {}

CanWrite(l) ==
    l.writer = {} /\ l.readers = {}

\* Mutant: the read guard is bound to a variable that lives on (let g = ..).
GuardKept(gs, g) ==
    gs

\* The guard is a temporary of the statement: dropped at its end.
GuardDropped(gs, g) ==
    gs \ {g}


-----------------------------------------------------------------------------
(* Strings are sequences of tokens: "https" is <<"http", "s">>, "wss" is     *)
(* <<"ws", "s">>; a path+query is <<"/a/b", "?x=1">>.                        *)

\* "http://localhost:3000", the target of ProxyConfig::default().
DefaultTarget == <<"http", "://", "localhost:3000">>

\* The targets the endpoint is configured with: with either scheme, as a bare
\* authority, and with a host name that contains "http".
Targets ==
    { DefaultTarget,
      <<"http", "s", "://", "host">>,
      <<"host">>,
      <<"http", "://", "http", "bin">> }

RootPath == <<"/">>

Paths == { RootPath, <<"/a/b", "?x=1">> }

\* The path+query strings the clients ask for in a run of scope sc.
PathsIn(sc) ==
    IF sc = "config" THEN Paths ELSE {RootPath}

\* str::replace: every non-overlapping occurrence of `from`, left to right.
RECURSIVE Replace(_, _, _)
Replace(str, from, to) ==
    IF Len(str) < Len(from) THEN str
    ELSE IF SubSeq(str, 1, Len(from)) = from
    THEN to \o Replace(SubSeq(str, Len(from) + 1, Len(str)), from, to)
    ELSE <<Head(str)>> \o Replace(Tail(str), from, to)

\* target.clone().replace( "https", "wss" ).replace( "http", "ws" )
perm_target(t) ==
    Replace(Replace(t, <<"http", "s">>, <<"ws", "s">>), <<"http">>, <<"ws">>)

\* target.to_owned() + &req.uri().to_string()
request_uri(t, u) ==
    t \o u

\* ProxyConfig::default() with the given target (ProxyConfig::new).
ProxyConfigNew(t) ==
    [proxy_target |-> t, web_secure |-> FALSE, ws_secure |-> FALSE,
     support_nesting |-> FALSE]

\* The builder functions, as written.
ws_secure(c) ==
    [c EXCEPT !.ws_secure = FALSE]

ws_insecure(c) ==
    [c EXCEPT !.ws_secure = FALSE]

web_secure(c) ==
    [c EXCEPT !.web_secure = TRUE]

web_insecure(c) ==
    [c EXCEPT !.web_secure = TRUE]

enable_nesting(c) ==
    [c EXCEPT !.support_nesting = TRUE]

disable_nesting(c) ==
    [c EXCEPT !.support_nesting = FALSE]

NoSetter == [ws |-> "none", web |-> "none", nesting |-> "none"]

-----------------------------------------------------------------------------
\* The state before the requests in `dispatched` reach the handler.
InitHandler(dispatched, q) ==
    /\ quota = q
    /\ req = [r \in Reqs |-> NoReq]
    /\ hpc = [r \in Reqs |-> IF r \in dispatched THEN "idle" ELSE "unused"]
    /\ result = [r \in Reqs |-> NoResult]
    /\ calls = [r \in Reqs |-> 0]
    /\ upres = [r \in Reqs |-> NoResult]
    /\ task = [r \in Reqs |-> "none"]
    /\ halves = [r \in Reqs |-> NoHalves]
    /\ live = [c \in Cells |-> TRUE]
    /\ lock = [c \in Cells |-> NoGuards]
    /\ rd = [r \in Reqs |-> [p \in Pumps |-> {}]]
    /\ wr = [r \in Reqs |-> [p \in Pumps |-> {}]]
    /\ late = [r \in Reqs |-> [p \in Pumps |-> 0]]
    /\ ppc = [r \in Reqs |-> [p \in Pumps |-> "none"]]
    /\ held = [r \in Reqs |-> [p \in Pumps |-> NoMsg]]
    /\ inq = [r \in Reqs |-> [s \in Sides |-> <<>>]]
    /\ recvd = [r \in Reqs |-> [s \in Sides |-> <<>>]]
    /\ sent = [r \in Reqs |-> [s \in Sides |-> <<>>]]
    /\ stream = [r \in Reqs |-> [s \in Sides |-> "open"]]
    /\ inuri = [r \in Reqs |-> <<>>]
    /\ uri = [r \in Reqs |-> <<>>]
    /\ upx = [r \in Reqs |-> NoParts]
    /\ resp = [r \in Reqs |-> NoParts]
    /\ bodyReads = [r \in Reqs |-> 0]

\* The endpoint serves with ProxyConfig::new( default target ), untouched by
\* the builder, and the clients ask for "/".
InitWith(dispatched, q) ==
    /\ InitHandler(dispatched, q)
    /\ target = DefaultTarget
    /\ config = ProxyConfigNew(DefaultTarget)
    /\ published = TRUE
    /\ last = NoSetter

\* One request, followed in depth.
Init ==
    /\ InitWith({1}, [r \in Reqs |-> MaxFrames])
    /\ scope = "deep"

\* Two concurrent requests.
InitPair ==
    /\ InitWith(Reqs, PairQuota)
    /\ scope = "pair"

wsVars == <<quota, task, halves, live, ppc, held, inq, recvd, sent, stream,
            lock, rd, wr, late>>

flagVars == <<lock, rd, wr, late>>

httpVars == <<req, hpc, result, calls, upres, inuri, uri, upx, resp, bodyReads>>

\* Mutant: the handler itself awaits the upstream connection before it answers.
on_upgrade_awaits ==
    [hpc |-> "connecting", result |-> NoResult, task |-> "upgrading"]

\* ws.on_upgrade(closure).into_response(): the closure is stored to run once
\* the connection is upgraded, and the 101 response is returned at once.
on_upgrade ==
    [hpc |-> "returned", result |-> [tag |-> "Ok", status |-> 101],
     task |-> "upgrading"]

(* The handler: dispatch *)
Proxy(r) ==
    /\ published
    /\ hpc[r] = "idle"
    /\ \E m \in Methods, u \in BOOLEAN, pq \in PathsIn(scope) :
        LET rq == [method |-> m, upgradeHdrs |-> u] IN
        /\ req' = [req EXCEPT ![r] = rq]
        /\ inuri' = [inuri EXCEPT ![r] = pq]
        /\ uri' = [uri EXCEPT ![r] = IF from_request_without_body(rq) = "Ok"
                                     THEN perm_target(target)
                                     ELSE request_uri(target, pq)]
        /\ IF from_request_without_body(rq) = "Ok"
           THEN /\ hpc' = [hpc EXCEPT ![r] = on_upgrade.hpc]
                /\ result' = [result EXCEPT ![r] = on_upgrade.result]
                /\ task' = [task EXCEPT ![r] = on_upgrade.task]
           ELSE IF MethodArm(m) = "forward"
           THEN /\ hpc' = [hpc EXCEPT ![r] = "body"]
                /\ UNCHANGED <<result, task>>
           ELSE /\ hpc' = [hpc EXCEPT ![r] = "returned"]
                /\ result' = [result EXCEPT ![r] = [tag |-> "Err", status |-> 405]]
                /\ UNCHANGED task
    /\ UNCHANGED <<quota, calls, upres, halves, live, ppc, held, inq, recvd, sent, stream>>
    /\ UNCHANGED <<upx, resp, bodyReads>>
    /\ UNCHANGED flagVars
    /\ UNCHANGED cfgVars

(* body.into_bytes().await.unwrap(), then client.get/post( request_uri )
   .body( .. ).send(): the call is issued as soon as the body read returns,
   in the same poll of the handler *)
ReadBody(r) ==
    /\ hpc[r] = "body"
    /\ \E res \in {"Ok", "Err"} :
        IF Unwrap(res) = "panic"
        THEN /\ hpc' = [hpc EXCEPT ![r] = "panic_body"]
             /\ UNCHANGED calls
        ELSE /\ hpc' = [hpc EXCEPT ![r] = "send"]
             /\ calls' = [calls EXCEPT ![r] = @ + 1]
    /\ bodyReads' = [bodyReads EXCEPT ![r] = @ + 1]
    /\ UNCHANGED <<req, result, upres, inuri, uri, upx, resp>>
    /\ UNCHANGED wsVars
    /\ UNCHANGED cfgVars

\* What the handler does with the outcome of .send().await: the position it
\* moves to and the value it returns.
AfterSend(ok, st) ==
    IF ok THEN [hpc |-> "resp", result |-> NoResult]
    ELSE [hpc |-> "returned", result |-> [tag |-> "Err", status |-> ErrorStatus(st)]]

(* .send().await returns: the call in flight ends with a response or an error *)
SendUpstream(r) ==
    /\ hpc[r] = "send"
    /\ \E ok \in BOOLEAN :
       \E st \in (IF ok THEN UpstreamStatuses ELSE ErrorStatuses) :
        LET a == AfterSend(ok, st) IN
        /\ hpc' = [hpc EXCEPT ![r] = a.hpc]
        /\ result' = [result EXCEPT ![r] = a.result]
        /\ upres' = [upres EXCEPT ![r] = [tag |-> IF ok THEN "Ok" ELSE "Err", status |-> st]]
        /\ \E x \in (IF ok THEN UpstreamPartsIn(scope) ELSE {NoParts}) :
            upx' = [upx EXCEPT ![r] = x]
    /\ UNCHANGED <<req, calls, inuri, uri, resp, bodyReads>>
    /\ UNCHANGED wsVars
    /\ UNCHANGED cfgVars

(* res.set_status( result.status() ); res.set_body( result.bytes().await.unwrap() ) *)
ReadResp(r) ==
    /\ hpc[r] = "resp"
    /\ \E res \in {"Ok", "Err"} :
        IF Unwrap(res) = "panic"
        THEN /\ hpc' = [hpc EXCEPT ![r] = "panic_resp"]
             /\ UNCHANGED <<result, resp>>
        ELSE /\ hpc' = [hpc EXCEPT ![r] = "returned"]
             /\ result' = [result EXCEPT ![r] = [tag |-> "Ok", status |-> upres[r].status]]
             /\ resp' = [resp EXCEPT ![r] = CopyParts(upx[r])]
    /\ UNCHANGED <<req, calls, upres, inuri, uri, upx, bodyReads>>
    /\ UNCHANGED wsVars
    /\ UNCHANGED cfgVars

-----------------------------------------------------------------------------
(* The on_upgrade task *)

\* let ( mut clientsink, mut clientstream ) = socket.split();
OnUpgrade(r) ==
    /\ task[r] = "upgrading"
    /\ task' = [task EXCEPT ![r] = "connect"]
    /\ halves' = [halves EXCEPT ![r].clientsink = "held", ![r].clientstream = "held"]
    /\ UNCHANGED <<quota, live, ppc, held, inq, recvd, sent, stream>>
    /\ UNCHANGED flagVars
    /\ UNCHANGED httpVars
    /\ UNCHANGED cfgVars

\* Mutant: the connect error is swallowed and the task parks forever with
\* the client halves still in its hands.
AfterConnectParks(h, res) ==
    IF Unwrap(res) = "panic"
    THEN [task |-> "parked", pumps |-> "none", halves |-> h]
    ELSE [task |-> "spawned", pumps |-> "recv",
          halves |-> [h EXCEPT !.serversink = "held", !.serverstream = "held"]]

\* What the task owns after connect_async( .. ).await.unwrap(): on a panic
\* the task unwinds and drops the client halves it holds.
AfterConnect(h, res) ==
    IF Unwrap(res) = "panic"
    THEN [task |-> "panicked", pumps |-> "none",
          halves |-> [h EXCEPT !.clientsink = "dropped", !.clientstream = "dropped"]]
    ELSE [task |-> "spawned", pumps |-> "recv",
          halves |-> [h EXCEPT !.serversink = "held", !.serverstream = "held"]]

(* connect_async, serversocket.split(), the flag, the two tokio::spawn *)
ConnectAsync(r) ==
    /\ task[r] = "connect"
    /\ \E res \in {"Ok", "Err"} :
        LET a == AfterConnect(halves[r], res) IN
        /\ task' = [task EXCEPT ![r] = a.task]
        /\ halves' = [halves EXCEPT ![r] = a.halves]
        /\ ppc' = [ppc EXCEPT ![r] = [p \in Pumps |-> a.pumps]]
        /\ live' = IF a.task = "spawned"
                   THEN [live EXCEPT ![client_live(r)] = TRUE]
                   ELSE live
    /\ UNCHANGED <<quota, held, inq, recvd, sent, stream>>
    /\ UNCHANGED flagVars
    /\ UNCHANGED httpVars
    /\ UNCHANGED cfgVars

(* while let Some( Ok( msg ) ) = stream.next().await *)
PumpRecv(r, p) ==
    /\ ppc[r][p] = "recv"
    /\ LET nxt == StreamNext(inq[r][Src(p)], stream[r][Src(p)]) IN
        /\ nxt.tag # "Pending"
        /\ IF WhileLet(nxt) = "body"
           THEN /\ ppc' = [ppc EXCEPT ![r][p] = "send"]
                /\ held' = [held EXCEPT ![r][p] = nxt.msg]
                /\ inq' = [inq EXCEPT ![r][Src(p)] = Tail(@)]
                /\ recvd' = [recvd EXCEPT ![r][Src(p)] = Append(@, nxt.msg)]
                /\ UNCHANGED stream
           ELSE /\ ppc' = [ppc EXCEPT ![r][p] = "exit"]
                /\ stream' = [stream EXCEPT ![r][Src(p)] =
                                 IF nxt.tag = "None" THEN "closed" ELSE @]
                /\ UNCHANGED <<held, inq, recvd>>
    /\ UNCHANGED <<quota, task, halves, live, sent>>
    /\ UNCHANGED flagVars
    /\ UNCHANGED httpVars
    /\ UNCHANGED cfgVars

(* sink.send( msg.into() ).await *)
PumpSend(r, p) ==
    /\ ppc[r][p] = "send"
    /\ \E res \in SendResults(stream[r][Dst(p)]) :
        /\ sent' = IF res = "Ok"
                   THEN [sent EXCEPT ![r][Dst(p)] = SinkSend(@, Into(held[r][p]))]
                   ELSE sent
        /\ ppc' = [ppc EXCEPT ![r][p] = OnSendResult(res)]
        /\ late' = IF res = "Ok" /\ ~live[FlagOf(r, p)]
                   THEN [late EXCEPT ![r][p] = @ + 1]
                   ELSE late
    /\ held' = [held EXCEPT ![r][p] = NoMsg]
    /\ UNCHANGED <<quota, task, halves, live, inq, recvd, stream, lock, rd, wr>>
    /\ UNCHANGED httpVars
    /\ UNCHANGED cfgVars

(* live.read().await: the read guard is granted *)
PumpLockRead(r, p) ==
    /\ ppc[r][p] = "check"
    /\ CanRead(lock[FlagOf(r, p)])
    /\ lock' = [lock EXCEPT ![FlagOf(r, p)].readers = @ \cup {<<r, p>>}]
    /\ ppc' = [ppc EXCEPT ![r][p] = "checking"]
    /\ UNCHANGED <<quota, task, halves, live, held, inq, recvd, sent, stream, rd, wr, late>>
    /\ UNCHANGED httpVars
    /\ UNCHANGED cfgVars

(* if !*guard { break }: the flag is read, the guard dropped *)
PumpCheck(r, p) ==
    /\ ppc[r][p] = "checking"
    /\ ppc' = [ppc EXCEPT ![r][p] = OnFlag(live[FlagOf(r, p)])]
    /\ rd' = [rd EXCEPT ![r][p] = @ \cup {FlagOf(r, p)}]
    /\ lock' = [lock EXCEPT ![FlagOf(r, p)].readers = GuardDropped(@, <<r, p>>)]
    /\ UNCHANGED <<quota, task, halves, live, held, inq, recvd, sent, stream, wr, late>>
    /\ UNCHANGED httpVars
    /\ UNCHANGED cfgVars

(* live.write().await: the write guard is granted *)
PumpLockWrite(r, p) ==
    /\ ppc[r][p] = "exit"
    /\ CanWrite(lock[FlagOf(r, p)])
    /\ lock' = [lock EXCEPT ![FlagOf(r, p)].writer = {<<r, p>>}]
    /\ ppc' = [ppc EXCEPT ![r][p] = "exiting"]
    /\ UNCHANGED <<quota, task, halves, live, held, inq, recvd, sent, stream, rd, wr, late>>
    /\ UNCHANGED httpVars
    /\ UNCHANGED cfgVars

(* *guard = false; the guard is dropped, the task ends and drops what it owns *)
PumpExit(r, p) ==
    /\ ppc[r][p] = "exiting"
    /\ live' = [live EXCEPT ![FlagOf(r, p)] = FALSE]
    /\ wr' = [wr EXCEPT ![r][p] = @ \cup {FlagOf(r, p)}]
    /\ lock' = [lock EXCEPT ![FlagOf(r, p)].writer = GuardDropped(@, <<r, p>>)]
    /\ ppc' = [ppc EXCEPT ![r][p] = "done"]
    /\ halves' = [halves EXCEPT ![r][StreamHalf(p)] = "dropped",
                                ![r][SinkHalf(p)] = "dropped"]
    /\ UNCHANGED <<quota, task, held, inq, recvd, sent, stream, rd, late>>
    /\ UNCHANGED httpVars
    /\ UNCHANGED cfgVars

-----------------------------------------------------------------------------
(* The peers *)

\* The socket of side s of session r exists: the client socket once the
\* upgrade is answered, the upstream socket once connect_async succeeded.
Connected(r, s) ==
    IF s = "client" THEN task[r] # "none" ELSE task[r] = "spawned"

PeerSend(r, s) ==
    /\ Connected(r, s)
    /\ stream[r][s] = "open"
    /\ Len(recvd[r][s]) + Len(inq[r][s]) < quota[r]
    /\ \E d \in PayloadsIn(scope) :
        inq' = [inq EXCEPT ![r][s] = Append(@, [lib |-> LibOf(s), data |-> d])]
    /\ UNCHANGED <<quota, task, halves, live, ppc, held, recvd, sent, stream>>
    /\ UNCHANGED flagVars
    /\ UNCHANGED httpVars
    /\ UNCHANGED cfgVars

PeerClose(r, s) ==
    /\ Connected(r, s)
    /\ stream[r][s] = "open"
    /\ \E how \in {"ended", "error"} :
        stream' = [stream EXCEPT ![r][s] = how]
    /\ UNCHANGED <<quota, task, halves, live, ppc, held, inq, recvd, sent>>
    /\ UNCHANGED flagVars
    /\ UNCHANGED httpVars
    /\ UNCHANGED cfgVars

-----------------------------------------------------------------------------
Next ==
    \/ \E r \in Reqs : Proxy(r)
    \/ \E r \in Reqs : ReadBody(r)
    \/ \E r \in Reqs : SendUpstream(r)
    \/ \E r \in Reqs : ReadResp(r)
    \/ \E r \in Reqs : OnUpgrade(r)
    \/ \E r \in Reqs : ConnectAsync(r)
    \/ \E r \in Reqs, p \in Pumps : PumpRecv(r, p)
    \/ \E r \in Reqs, p \in Pumps : PumpSend(r, p)
    \/ \E r \in Reqs, p \in Pumps : PumpLockRead(r, p)
    \/ \E r \in Reqs, p \in Pumps : PumpCheck(r, p)
    \/ \E r \in Reqs, p \in Pumps : PumpLockWrite(r, p)
    \/ \E r \in Reqs, p \in Pumps : PumpExit(r, p)
    \/ \E r \in Reqs, s \in Sides : PeerSend(r, s)
    \/ \E r \in Reqs, s \in Sides : PeerClose(r, s)

Spec == Init /\ [][Next]_vars

SpecPair == InitPair /\ [][Next]_vars

-----------------------------------------------------------------------------
(* Building the config, before the endpoint serves *)

handlerVars == <<quota, req, hpc, result, calls, upres, task, halves, live, ppc,
                 held, inq, recvd, sent, stream, inuri, uri, upx, resp, bodyReads,
                 lock, rd, wr, late>>

\* config.f() for a builder function f that sets flag `flag`.
Builder(c, flag, setter) ==
    /\ ~published
    /\ config' = c
    /\ last' = [last EXCEPT ![flag] = setter]
    /\ UNCHANGED <<target, published, scope>>
    /\ UNCHANGED handlerVars

WsSecure ==
    Builder(ws_secure(config), "ws", "secure")

WsInsecure ==
    Builder(ws_insecure(config), "ws", "insecure")

WebSecure ==
    Builder(web_secure(config), "web", "secure")

WebInsecure ==
    Builder(web_insecure(config), "web", "insecure")

EnableNesting ==
    Builder(enable_nesting(config), "nesting", "enable")

DisableNesting ==
    Builder(disable_nesting(config), "nesting", "disable")

\* The config and the target are handed to the endpoint as Data.
Publish ==
    /\ ~published
    /\ published' = TRUE
    /\ UNCHANGED <<target, config, last, scope>>
    /\ UNCHANGED handlerVars

\* A config under construction for any target, and clients asking for any
\* path; the requests are followed up to the upstream URI they are given.
InitUri ==
    /\ InitHandler(Reqs, [r \in Reqs |-> 0])
    /\ target \in Targets
    /\ config = ProxyConfigNew(target)
    /\ published = FALSE
    /\ last = NoSetter
    /\ scope = "config"

NextUri ==
    \/ WsSecure
    \/ WsInsecure
    \/ WebSecure
    \/ WebInsecure
    \/ EnableNesting
    \/ DisableNesting
    \/ Publish
    \/ \E r \in Reqs : Proxy(r)

SpecUri == InitUri /\ [][NextUri]_vars

-----------------------------------------------------------------------------
(* Properties of the relay and of the forwarder *)

\* Pump p of session r is suspended in stream.next().await with nothing to
\* read: only a further frame, an end or an error on its own socket resumes it.
Waits(r, p) ==
    /\ ppc[r][p] = "recv"
    /\ StreamNext(inq[r][Src(p)], stream[r][Src(p)]).tag = "Pending"

\* The on_upgrade task of r went past connect_async without an upstream socket.
ConnectFailed(r) ==
    /\ task[r] \notin {"none", "upgrading", "connect"}
    /\ halves[r].serversink = "none"

\* C1: once a pump has observed a send failure, a stream end or read error,
\* or the flag being false, and has left (the flag is written and its task is
\* over), the other pump leaves too without needing anything more from its
\* own socket: it is never found suspended on a silent, open stream.
C1_SessionTerminates ==
    \A r \in Reqs : \A p \in Pumps :
        ppc[r][p] = "done" => ~Waits(r, Peer(p))

\* C2: a pump forwards no frame once the flag it reads has been cleared by
\* the peer pump: from a state where the peer is over and the flag is false,
\* no step adds a frame to the pump's destination socket.
C2_NoForwardAfterClear ==
    [][\A r \in Reqs : \A p \in Pumps :
        (ppc[r][Peer(p)] = "done" /\ ~live[FlagOf(r, p)])
            => sent'[r][Dst(p)] = sent[r][Dst(p)]]_vars

\* C3: when the client has closed its socket and the session has come to
\* rest (every pump is over or suspended on its stream), both halves of the
\* upstream-facing socket have been released.
C3_UpstreamClosedAfterClientClose ==
    \A r \in Reqs :
        ( /\ task[r] = "spawned"
          /\ stream[r]["client"] # "open"
          /\ \A p \in Pumps : ppc[r][p] = "done" \/ Waits(r, p) )
        => ( /\ halves[r].serversink = "dropped"
             /\ halves[r].serverstream = "dropped" )

\* C4: when the upstream WebSocket connection cannot be established, the
\* client-facing socket is not left open: both of its halves are released.
C4_ClientSocketReleased ==
    \A r \in Reqs :
        ConnectFailed(r) =>
            /\ halves[r].clientsink = "dropped"
            /\ halves[r].clientstream = "dropped"

\* C4 witness: an upgrade was answered, connect_async failed and the client
\* socket is gone.
C4_Witness ==
    \E r \in Reqs :
        /\ result[r] = [tag |-> "Ok", status |-> 101]
        /\ ConnectFailed(r)
        /\ halves[r].clientsink = "dropped"
        /\ halves[r].clientstream = "dropped"

\* C5: no failure of an external I/O operation ends in a panic: no handler
\* invocation and no on_upgrade task is ever in a panicked state.
C5_NoPanic ==
    \A r \in Reqs :
        /\ hpc[r] \notin {"panic_body", "panic_resp"}
        /\ task[r] # "panicked"

\* C6: in each direction the frames accepted by the destination socket are,
\* in order and one for one, the first frames yielded by the source socket
\* (each in the destination library's message type): no reordering,
\* duplication or skipping.
C6_OrderPreserved ==
    \A r \in Reqs : \A p \in Pumps :
        LET out == sent[r][Dst(p)]
            in == recvd[r][Src(p)]
        IN  /\ Len(out) <= Len(in)
            /\ \A i \in 1..Len(out) :
                out[i] = [lib |-> LibOf(Dst(p)), data |-> in[i].data]

\* C6 witness: two different frames went through client -> upstream, in the
\* order they came, and a frame went through upstream -> client.
C6_Witness ==
    \E r \in Reqs :
        /\ Len(sent[r]["upstream"]) = 2
        /\ sent[r]["upstream"][1].data # sent[r]["upstream"][2].data
        /\ recvd[r]["client"][1].data = sent[r]["upstream"][1].data
        /\ Len(sent[r]["client"]) >= 1

\* The request of r is a GET or POST that is no upgrade handshake.
PlainGetPost(r) ==
    /\ req[r].method \in {"GET", "POST"}
    /\ ~(req[r].method = "GET" /\ req[r].upgradeHdrs)

\* C7: a request whose method is neither GET nor POST (such a request is
\* never an upgrade handshake) fails with 405, with no upstream HTTP call and
\* without the WebSocket relay being attempted.
C7_UnsupportedMethod ==
    \A r \in Reqs :
        (hpc[r] \notin {"idle", "unused"} /\ req[r].method \notin {"GET", "POST"})
        => /\ hpc[r] = "returned"
           /\ result[r] = [tag |-> "Err", status |-> 405]
           /\ calls[r] = 0
           /\ task[r] = "none"
           /\ halves[r] = NoHalves

\* C7 witness: a PUT without upgrade headers was refused with 405 and no
\* upstream call.
C7_Witness ==
    \E r \in Reqs :
        /\ req[r] = [method |-> "PUT", upgradeHdrs |-> FALSE]
        /\ result[r] = [tag |-> "Err", status |-> 405]
        /\ calls[r] = 0

\* C8: every non-upgrade GET or POST request whose handling is over
\* (returned or panicked) has issued exactly one upstream HTTP call.
C8_ExactlyOneCall ==
    \A r \in Reqs :
        (PlainGetPost(r) /\ hpc[r] \in {"returned", "panic_body", "panic_resp"})
        => calls[r] = 1

\* C9: when the upstream HTTP call fails, the handler returns an error whose
\* status is the one the underlying error carries, or 502 when it carries
\* none; never a success response.
C9_UpstreamFailureStatus ==
    \A r \in Reqs :
        upres[r].tag = "Err" =>
            /\ hpc[r] = "returned"
            /\ result[r].tag = "Err"
            /\ result[r].status = (IF upres[r].status = 0 THEN 502 ELSE upres[r].status)

\* C9 witness: the upstream call failed with an error carrying 504 and the
\* handler returned an error with that status.
C9_Witness ==
    \E r \in Reqs :
        /\ upres[r] = [tag |-> "Err", status |-> 504]
        /\ result[r] = [tag |-> "Err", status |-> 504]

\* What belongs to request r alone, and all that r's handler, task and pumps
\* read or write (the flag cells its pumps use included).
Own(r) ==
    <<hpc[r], result[r], calls[r], upres[r], task[r], ppc[r], stream[r], inq[r]>>

View(r) ==
    <<Own(r), req[r], halves[r], held[r], recvd[r], sent[r],
      live[client_live(r)], live[server_live(r)],
      lock[client_live(r)], lock[server_live(r)], rd[r], wr[r], late[r],
      inuri[r], uri[r], upx[r], resp[r], bodyReads[r]>>

\* C10: failures are session-local: a step of one session or request (a send
\* failure, a stream end, an upstream failure, a pump leaving) changes
\* neither the liveness flag, nor a pump, nor the outcome of any other one.
C10_SessionLocal ==
    [][\A r \in Reqs :
        Own(r)' # Own(r) => \A t \in Reqs \ {r} : View(t)' = View(t)]_vars

\* C10 witness: a pump of one session has left after a failed send and has
\* cleared its flag, while the other session is relaying with its flag set.
C10_Witness ==
    \E r \in Reqs : \E t \in Reqs \ {r} :
        /\ ppc[r]["c2u"] = "done"
        /\ stream[r]["client"] = "open"
        /\ sent[r]["upstream"] = <<>>
        /\ recvd[r]["client"] # <<>>
        /\ ~live[client_live(r)]
        /\ task[t] = "spawned"
        /\ live[client_live(t)]
        /\ \A p \in Pumps : ppc[t][p] = "recv"

-----------------------------------------------------------------------------
(* Properties of the configuration and of the upstream URI *)

\* The scheme of a URI: what stands before its first "://", if anything.
SchemeOf(u) ==
    IF \E i \in 1..Len(u) : u[i] = "://"
    THEN SubSeq(u, 1, (CHOOSE i \in 1..Len(u) :
                          u[i] = "://" /\ \A j \in 1..(i - 1) : u[j] # "://") - 1)
    ELSE <<>>

\* Request r took the WebSocket path of the handler.
IsRelay(r) ==
    task[r] # "none"

\* The scheme the two secure flags select for the protocol kind of r.
SchemeFromFlags(r) ==
    IF IsRelay(r)
    THEN (IF config.ws_secure THEN <<"ws", "s">> ELSE <<"ws">>)
    ELSE (IF config.web_secure THEN <<"http", "s">> ELSE <<"http">>)

\* What the upstream URI carries after the target; a lone "/" is the empty path.
PathQueryOf(r) ==
    LET rest == SubSeq(uri[r], Len(target) + 1, Len(uri[r]))
    IN  IF rest = RootPath THEN <<>> ELSE rest

\* C11: the scheme of the upstream URI is decided by the protocol kind and
\* the two secure flags alone (https/http by web_secure, wss/ws by
\* ws_secure); a scheme in the target string is replaced, not used.
C11_SchemeFromFlags ==
    \A r \in Reqs :
        uri[r] # <<>> => SchemeOf(uri[r]) = SchemeFromFlags(r)

\* C12: the upstream URI carries the inbound path+query after the target
\* when support_nesting is true, and the bare target when it is false.
C12_NestingPolicy ==
    \A r \in Reqs :
        uri[r] # <<>> =>
            PathQueryOf(r) = (IF config.support_nesting
                              THEN (IF inuri[r] = RootPath THEN <<>> ELSE inuri[r])
                              ELSE <<>>)

\* C13: after any sequence of builder calls each flag has the polarity named
\* by the last setter called for it, and its default false if none was.
C13_SetterPolarity ==
    /\ config.ws_secure = (last["ws"] = "secure")
    /\ config.web_secure = (last["web"] = "secure")
    /\ config.support_nesting = (last["nesting"] = "enable")

-----------------------------------------------------------------------------
(* Properties of the response, of the dispatch and of the flag *)

\* The names of a header list, and the last value a list gives a name.
HeaderNames(hs) ==
    { hs[i][1] : i \in 1..Len(hs) }

LastValue(hs, k) ==
    LET is == { i \in 1..Len(hs) : hs[i][1] = k }
    IN  hs[CHOOSE i \in is : \A j \in is : j <= i][2]

\* C14: for a successful upstream response the Response returned has the
\* upstream's status, version and body, exactly the upstream's header names,
\* and under each name the last value the upstream gave it.
C14_ResponseCopied ==
    \A r \in Reqs :
        (upres[r].tag = "Ok" /\ hpc[r] = "returned") =>
            /\ result[r] = [tag |-> "Ok", status |-> upres[r].status]
            /\ resp[r].version = upx[r].version
            /\ resp[r].body = upx[r].body
            /\ DOMAIN resp[r].headers = HeaderNames(upx[r].headers)
            /\ \A k \in HeaderNames(upx[r].headers) :
                resp[r].headers[k] = LastValue(upx[r].headers, k)

\* C14 witness: an upstream 404 over HTTP/2.0 with body "ok" and x-test sent
\* twice came back with x-test: 2.
C14_Witness ==
    \E r \in Reqs :
        /\ result[r] = [tag |-> "Ok", status |-> 404]
        /\ upx[r].headers = << <<"x-test", "1">>, <<"x-test", "2">> >>
        /\ upx[r].version = "HTTP/2.0"
        /\ resp[r].version = "HTTP/2.0"
        /\ resp[r].body = "ok"
        /\ resp[r].headers["x-test"] = "2"

\* C15: a request that is an upgrade handshake is handed to the relay
\* without a byte of its body being read and without an upstream HTTP call;
\* the inbound body is read on the plain GET/POST path only.
C15_UpgradeBeforeBody ==
    \A r \in Reqs :
        /\ (req[r].method = "GET" /\ req[r].upgradeHdrs) =>
              (IsRelay(r) /\ bodyReads[r] = 0 /\ calls[r] = 0)
        /\ bodyReads[r] > 0 => (PlainGetPost(r) /\ ~IsRelay(r))

\* C15 witness: an upgraded session has relayed a frame, and its request's
\* body was never read.
C15_Witness ==
    \E r \in Reqs :
        /\ req[r] = [method |-> "GET", upgradeHdrs |-> TRUE]
        /\ sent[r]["upstream"] # <<>>
        /\ bodyReads[r] = 0
        /\ calls[r] = 0

\* C16: a pump whose task is over has set the flag it writes to false, on
\* whichever way it left its loop (stream end or read error, send error, flag
\* read false).
C16_FlagClearedOnExit ==
    \A r \in Reqs, p \in Pumps :
        ppc[r][p] = "done" => ~live[FlagOf(r, p)]

\* C16 witness: a pump that left on a send error, with no flag read before,
\* is over and its flag is false.
C16_Witness ==
    \E r \in Reqs, p \in Pumps :
        /\ ppc[r][p] = "done"
        /\ rd[r][p] = {}
        /\ recvd[r][Src(p)] # <<>>
        /\ sent[r][Dst(p)] = <<>>
        /\ ~live[FlagOf(r, p)]

\* C17 as stated: the session has two distinct flags, no pump reads a flag it
\* writes, and no flag is written by both pumps.
C17_DistinctFlags ==
    \A r \in Reqs :
        task[r] = "spawned" =>
            /\ client_live(r) # server_live(r)
            /\ \A p \in Pumps : rd[r][p] \cap wr[r][p] = {}
            /\ wr[r]["c2u"] \cap wr[r]["u2c"] = {}

\* C17 amended: the session has one flag cell; every flag read and every flag
\* write of either pump goes to that cell, and a pump whose task is over has
\* written it.
C17_OneSharedFlag ==
    \A r \in Reqs, p \in Pumps :
        /\ rd[r][p] \subseteq {r}
        /\ wr[r][p] \subseteq {r}
        /\ ppc[r][p] = "done" => wr[r][p] = {r}

\* C17 witness: both pumps have read the one cell and both have written it.
C17_Witness ==
    \E r \in Reqs :
        \A p \in Pumps : rd[r][p] = {r} /\ wr[r][p] = {r}

\* C18: whenever the on_upgrade task exists (before, during and after the
\* upstream connection attempt, failed or not) the handler has returned, and
\* what it returned is the 101 upgrade response.
C18_UpgradeCompletes ==
    \A r \in Reqs :
        IsRelay(r) =>
            /\ hpc[r] = "returned"
            /\ result[r] = [tag |-> "Ok", status |-> 101]

\* C18 witness: the upstream connection failed in the task and the handler's
\* answer is still the upgrade response.
C18_Witness ==
    \E r \in Reqs :
        /\ task[r] = "panicked"
        /\ hpc[r] = "returned"
        /\ result[r].tag = "Ok"
        /\ result[r].status = 101

\* C19: a pump forwards at most one frame while the flag is false.
C19_AtMostOneLateFrame ==
    \A r \in Reqs, p \in Pumps :
        late[r][p] <= 1

\* C19 witness: a pump forwarded a frame after its peer had cleared the flag,
\* then read the flag and left.
C19_Witness ==
    \E r \in Reqs, p \in Pumps :
        /\ late[r][p] = 1
        /\ ppc[r][Peer(p)] = "done"
        /\ rd[r][p] # {}
        /\ ppc[r][p] = "done"

\* The pumps holding a guard of cell c.
Holders(c) ==
    lock[c].readers \cup lock[c].writer

\* A guard is held only by a pump inside its flag read or flag write
\* statement, never by one at a socket receive or send; a write guard is
\* exclusive; a pump waiting for the lock waits only for pumps whose next
\* step releases it; and once a pump has written a cell, the cell is false
\* for every later read.
GuardsScoped ==
    /\ \A c \in Cells :
        /\ \A g \in lock[c].readers : ppc[g[1]][g[2]] = "checking"
        /\ \A g \in lock[c].writer : ppc[g[1]][g[2]] = "exiting"
        /\ Cardinality(lock[c].writer) <= 1
        /\ lock[c].writer # {} => lock[c].readers = {}
    /\ \A r \in Reqs, p \in Pumps :
        /\ (ppc[r][p] = "check" /\ ~CanRead(lock[FlagOf(r, p)])) =>
              \E g \in Holders(FlagOf(r, p)) : ppc[g[1]][g[2]] = "exiting"
        /\ (ppc[r][p] = "exit" /\ ~CanWrite(lock[FlagOf(r, p)])) =>
              \E g \in Holders(FlagOf(r, p)) :
                  ppc[g[1]][g[2]] \in {"checking", "exiting"}
        /\ ppc[r][p] \in {"checking", "exiting"} => <<r, p>> \in Holders(FlagOf(r, p))
        /\ wr[r][p] # {} => \A c \in wr[r][p] : ~live[c]

\* One request; the frames all carry the same payload.
InitFlag ==
    /\ InitWith({1}, [r \in Reqs |-> MaxFrames])
    /\ scope = "flag"

\* The steps of pump p on the flag and its lock.
FlagStep(r, p) ==
    \/ PumpLockRead(r, p)
    \/ PumpCheck(r, p)
    \/ PumpLockWrite(r, p)
    \/ PumpExit(r, p)

\* The runtime polls a task that is ready: a pump that can take or release a
\* guard eventually does.
SpecFair ==
    /\ InitFlag
    /\ [][Next]_vars
    /\ \A r \in Reqs, p \in Pumps : WF_vars(FlagStep(r, p))

\* C20: the lock never blocks a pump for good: no guard is held across a
\* socket receive or send, every flag read that has started completes (the
\* pump goes on to its next receive or to its exit), every flag write that
\* has started completes (the task ends), and a written flag is false for
\* every later read.
C20_LockNeverBlocks ==
    /\ []GuardsScoped
    /\ \A r \in Reqs, p \in Pumps :
        /\ (ppc[r][p] = "check") ~> (ppc[r][p] \in {"recv", "exit"})
        /\ (ppc[r][p] = "exit") ~> (ppc[r][p] = "done")

\* C20 witness: one pump waits for the write guard while its peer holds a
\* read guard.
C20_Witness ==
    \E r \in Reqs, p \in Pumps :
        /\ ppc[r][p] = "exit"
        /\ ~CanWrite(lock[FlagOf(r, p)])
        /\ <<r, Peer(p)>> \in lock[FlagOf(r, p)].readers

====
